---- MODULE Spec2Model ----
(***************************************************************************)
(* Round-robin aggregators of devicetracker_component.h:                   *)
(* kis_tracked_rrd (seconds / minutes / hours rings) and                   *)
(* kis_tracked_minute_rrd (seconds ring only), with the three built-in     *)
(* aggregation policies.                                                   *)
(*                                                                         *)
(* Rings are functions over 0..n-1, as the code indexes them.  The code's  *)
(* member names are kept: minute_vec is the ring of 60 second-slots,       *)
(* hour_vec the ring of 60 minute-slots, day_vec the ring of 24            *)
(* hour-slots.                                                             *)
(*                                                                         *)
(* Slot values are int64_t in the code.  TLC's integers are narrower, so   *)
(* the machine word of the model is WordBits wide; the conversions between *)
(* the signed and the unsigned view of a word are modelled as the C++      *)
(* conversions are, on that width.                                         *)
(***************************************************************************)
EXTENDS Integers, Sequences, FiniteSets, TLC

\* ------------------------------------------------------------------ bounds

\* Number of calls made on the record after its construction.
MaxCalls == 3

\* Width of the model's machine word (int64_t / size_t in the code).
WordBits == 24

\* Sample values handed to add_sample.
Samples == {-40, 3600}

\* Timestamps handed to add_sample, and clock readings of pre_serialize.
\* Their differences cover every branch of add_sample: 0, 1..60 with and
\* without wrapping of the second index, exactly 60, 61..3600 with and without
\* wrapping of the minute index, exactly 3600, 3601..86400 with and without
\* wrapping of the hour index, exactly 86400, and more than a day; and they
\* let a wrapping fast-forward pass over a slot written earlier
\* (64, 100, 125 for the seconds; 0, 125, 3665 for the minutes;
\* 3665, 86465, 100000 for the hours).
Times == {0, 64, 65, 100, 125, 3665, 86465, 100000}

\* Nodes of the value tree, and calls made on them.
NumNodes == 3
MaxTreeCalls == 3

\* Keys handed to the map operations (ints, and MAC addresses taken as
\* ints), and positions handed to del_vector.
Keys == {1, 2}
Positions == {0, 1}

\* Values handed to the setters and the arithmetic operators.
SetVals == {1, 5}

\* Longest bucket handed to combine_vector on its own, the slot values of
\* those buckets, and the operands handed to combine_element.
MaxBucket == 5
BucketVals == {-40, -30, 0, 7}
ElemVals == {-10, -5, -3, 0, 4, 5, 7, 10}

\* Largest field id a record is built with.
MaxFieldId == 9

\* Packets folded into a signal record, their readings, and the clock and
\* the GPS fixes of the folds.
MaxSignalCalls == 2
DbmSignals == {0, -40, -30}
DbmNoises == {0, -90}
RssiSignals == {0, 10, 20}
RssiNoises == {0, 5}
Carriers == {1, 2}
Datarates == {10, 20}
Clock == {100, 101}
Encodings == {1, 2}
GpsFixes == {[null |-> FALSE, lat |-> 1, lon |-> 2, alt |-> 3, fix |-> 3]}

\* Points handed to add_loc: whole degrees and metres, which the scaling by
\* precision_multiplier and the cast to int64_t keep exactly; the fix of each
\* point (2 for a 2d fix, 3 for a 3d fix); and the unit the cast of a
\* product of doubles may lose.
MaxLocCalls == 3
Lats == {-2, 0, 1, 3}
Lons == {0, 2}
Alts == {0, 5}
Fixes == {2, 3}
CastLoss == {0, 1}

\* Slots a stored ring may have beyond the expected number.
StoredExtra == 1

\* Shapes of the rings in a map rebuilt from storage, the last_time stored in
\* it, and the value its slots hold.
StoredShapes == {"missing", "short", "exact", "long"}
StoredTimes == {100}
StoredVals == {7}

\* Index, in the seconds ring of a stored map, of a child that is not an
\* int64 slot.
BadSlots == {3, 40}

\* --------------------------------------------------------------- constants

SecondSlots == 60
MinuteSlots == 60
HourSlots == 24

SecsPerMinute == 60
SecsPerHour == 60 * 60
SecsPerDay == 60 * 60 * 24

Policies == {"default", "peak_signal", "extreme"}
Variants == {"rrd", "minute_rrd"}

\* ------------------------------------------------------------ machine word

Modulus == 2 ^ WordBits

\* Conversion of a signed word to the unsigned type of the same width.
ToUnsigned(x) == x % Modulus

\* Conversion of an unsigned word to the signed type of the same width.
ToSigned(u) == IF u >= Modulus \div 2 THEN u - Modulus ELSE u

\* Signed integer division of C++: the quotient truncates toward zero.
SignedDiv(a, b) ==
    IF (a >= 0) = (b > 0)
    THEN (IF a >= 0 THEN a ELSE -a) \div (IF b > 0 THEN b ELSE -b)
    ELSE -((IF a >= 0 THEN a ELSE -a) \div (IF b > 0 THEN b ELSE -b))

\* avg / v.size(): v.size() is a size_t, so the int64_t dividend is converted
\* to the unsigned type, the division is unsigned, and the quotient is
\* converted back to the int64_t the function returns.
DivBySize(avg, size) == ToSigned(ToUnsigned(avg) \div size)

\* -------------------------------------------------------------- aggregators

RECURSIVE SumSlots(_, _)
\* The accumulation loop of combine_vector over the first n slots.
SumSlots(v, n) == IF n = 0 THEN 0 ELSE SumSlots(v, n - 1) + v[n - 1]

RECURSIVE CountNonZero(_, _)
\* avgc of the peak-signal combine_vector: slots that are not 0.
CountNonZero(v, n) ==
    IF n = 0 THEN 0
    ELSE CountNonZero(v, n - 1) + (IF v[n - 1] = 0 THEN 0 ELSE 1)

VecSize(v) == Cardinality(DOMAIN v)

DefaultVal(agg) == 0

DefaultCombineElement(a, b) == a + b

PeakCombineElement(a, b) == IF a < b THEN b ELSE a

\* Variant: the larger of the two operands whatever their signs.
ExtremeCombineElement_Max(a, b) == IF a < b THEN b ELSE a

\* Variant: operands of mixed sign select the positive one.
ExtremeCombineElement_MixedHigh(a, b) ==
    IF a < 0 /\ b < 0 THEN (IF a < b THEN a ELSE b)
    ELSE IF a > 0 /\ b > 0 THEN (IF a > b THEN a ELSE b)
    ELSE IF a = 0 THEN b
    ELSE IF b = 0 THEN a
    ELSE IF a < b THEN b
    ELSE a

ExtremeCombineElement(a, b) ==
    IF a < 0 /\ b < 0 THEN (IF a < b THEN a ELSE b)
    ELSE IF a > 0 /\ b > 0 THEN (IF a > b THEN a ELSE b)
    ELSE IF a = 0 THEN b
    ELSE IF b = 0 THEN a
    ELSE IF a < b THEN a
    ELSE b

CombineElement(agg, a, b) ==
    CASE agg = "default" -> DefaultCombineElement(a, b)
      [] agg = "peak_signal" -> PeakCombineElement(a, b)
      [] agg = "extreme" -> ExtremeCombineElement(a, b)

DefaultCombineVector(v) == DivBySize(SumSlots(v, VecSize(v)), VecSize(v))

\* Variant: the sum of the non-zero slots divided by the number of all slots.
PeakCombineVector_AllSlots(v) ==
    IF CountNonZero(v, VecSize(v)) = 0
    THEN DefaultVal("peak_signal")
    ELSE SignedDiv(SumSlots(v, VecSize(v)), VecSize(v))

PeakCombineVector(v) ==
    IF CountNonZero(v, VecSize(v)) = 0
    THEN DefaultVal("peak_signal")
    ELSE SignedDiv(SumSlots(v, VecSize(v)), CountNonZero(v, VecSize(v)))

ExtremeCombineVector(v) == DivBySize(SumSlots(v, VecSize(v)), VecSize(v))

CombineVector(agg, v) ==
    CASE agg = "default" -> DefaultCombineVector(v)
      [] agg = "peak_signal" -> PeakCombineVector(v)
      [] agg = "extreme" -> ExtremeCombineVector(v)

\* ------------------------------------------------------------ ring helpers

minutes_different_NoWrap(m1, m2) ==
    IF m1 = m2 THEN 0 ELSE IF m1 < m2 THEN m2 - m1 ELSE 0

minutes_different(m1, m2) ==
    IF m1 = m2 THEN 0
    ELSE IF m1 < m2 THEN m2 - m1
    ELSE 60 - m1 + m2

hours_different(h1, h2) ==
    IF h1 = h2 THEN 0
    ELSE IF h1 < h2 THEN h2 - h1
    ELSE 24 - h1 + h2

\* The loops "if (i - begin == bucket) set(val) else set(default_val)".
FillExcept(v, bucket, val, def) ==
    [i \in DOMAIN v |-> IF i = bucket THEN val ELSE def]

\* The loops "for (k = 0; k < count; k++) vec[(start + k) % period] = default".
FastForward(v, start, count, period, def) ==
    [i \in DOMAIN v |->
        IF \E k \in 0 .. count - 1 : i = (start + k) % period
        THEN def ELSE v[i]]

\* ------------------------------------------------- kis_tracked_rrd::add_sample

SecBucket(t) == t % 60
MinBucket(t) == (t \div 60) % 60
HourBucket(t) == (t \div 3600) % 24

\* The record r holds last_time, minute_vec, hour_vec and day_vec.

RrdDayReset_KeepOthers(agg, r, in_s, in_time) ==
    LET mv == [r.minute_vec EXCEPT ![SecBucket(in_time)] = in_s]
        hv == [r.hour_vec EXCEPT ![MinBucket(in_time)] = CombineVector(agg, mv)]
        dv == [r.day_vec EXCEPT ![HourBucket(in_time)] = CombineVector(agg, hv)]
    IN [last_time |-> in_time, minute_vec |-> mv, hour_vec |-> hv, day_vec |-> dv]

RrdDayReset_KeepTime(agg, r, in_s, in_time) ==
    LET mv == FillExcept(r.minute_vec, SecBucket(in_time), in_s, DefaultVal(agg))
        hv == FillExcept(r.hour_vec, MinBucket(in_time), CombineVector(agg, mv),
                         DefaultVal(agg))
        dv == FillExcept(r.day_vec, HourBucket(in_time), CombineVector(agg, hv),
                         DefaultVal(agg))
    IN [last_time |-> r.last_time, minute_vec |-> mv, hour_vec |-> hv, day_vec |-> dv]

RrdDayReset_Raw(agg, r, in_s, in_time) ==
    LET mv == FillExcept(r.minute_vec, SecBucket(in_time), in_s, DefaultVal(agg))
        hv == FillExcept(r.hour_vec, MinBucket(in_time), in_s, DefaultVal(agg))
        dv == FillExcept(r.day_vec, HourBucket(in_time), in_s, DefaultVal(agg))
    IN [last_time |-> in_time, minute_vec |-> mv, hour_vec |-> hv, day_vec |-> dv]

RrdDayReset(agg, r, in_s, in_time) ==
    LET mv == FillExcept(r.minute_vec, SecBucket(in_time), in_s, DefaultVal(agg))
        min_val == CombineVector(agg, mv)
        hv == FillExcept(r.hour_vec, MinBucket(in_time), min_val, DefaultVal(agg))
        hr_val == CombineVector(agg, hv)
        dv == FillExcept(r.day_vec, HourBucket(in_time), hr_val, DefaultVal(agg))
    IN [last_time |-> in_time, minute_vec |-> mv, hour_vec |-> hv, day_vec |-> dv]

RrdHourGap(agg, r, in_s, in_time) ==
    LET last_hour_bucket == HourBucket(r.last_time)
        mv == FillExcept(r.minute_vec, SecBucket(in_time), in_s, DefaultVal(agg))
        sec_avg == CombineVector(agg, mv)
        hv1 == FillExcept(r.hour_vec, MinBucket(in_time), sec_avg, DefaultVal(agg))
        min_avg == CombineVector(agg, hv1)
        \* the fast-forward loop indexes hour_vec, not day_vec
        hv2 == FastForward(hv1, last_hour_bucket + 1,
                   hours_different(last_hour_bucket + 1, HourBucket(in_time)),
                   24, DefaultVal(agg))
        dv == [r.day_vec EXCEPT ![HourBucket(in_time)] = min_avg]
    IN [last_time |-> in_time, minute_vec |-> mv, hour_vec |-> hv2, day_vec |-> dv]

RrdMinuteGap(agg, r, in_s, in_time) ==
    LET last_min_bucket == MinBucket(r.last_time)
        mv == FillExcept(r.minute_vec, SecBucket(in_time), in_s, DefaultVal(agg))
        sec_avg == CombineVector(agg, mv)
        hv1 == FastForward(r.hour_vec, last_min_bucket + 1,
                   minutes_different(last_min_bucket + 1, MinBucket(in_time)),
                   60, DefaultVal(agg))
        hv2 == [hv1 EXCEPT ![MinBucket(in_time)] = sec_avg]
        min_avg == CombineVector(agg, hv2)
        dv == [r.day_vec EXCEPT ![HourBucket(in_time)] = min_avg]
    IN [last_time |-> in_time, minute_vec |-> mv, hour_vec |-> hv2, day_vec |-> dv]

SameMinuteSeconds_Overwrite(agg, r, in_s, in_time) ==
    LET sec_bucket == SecBucket(in_time)
        last_sec_bucket == SecBucket(r.last_time)
    IN [FastForward(r.minute_vec, last_sec_bucket + 1,
            minutes_different(last_sec_bucket + 1, sec_bucket),
            60, DefaultVal(agg))
        EXCEPT ![sec_bucket] = in_s]

\* Variant: the sample is written without the fast-forward of the seconds.
SameMinuteSeconds_NoForward(agg, r, in_s, in_time) ==
    IF in_time = r.last_time
    THEN [r.minute_vec EXCEPT
             ![SecBucket(in_time)] =
                 CombineElement(agg, r.minute_vec[SecBucket(in_time)], in_s)]
    ELSE [r.minute_vec EXCEPT ![SecBucket(in_time)] = in_s]

\* The seconds ring of the last branch (shared by both record classes).
SameMinuteSeconds(agg, r, in_s, in_time) ==
    LET sec_bucket == SecBucket(in_time)
        last_sec_bucket == SecBucket(r.last_time)
    IN IF in_time = r.last_time
       THEN [r.minute_vec EXCEPT
                ![sec_bucket] = CombineElement(agg, r.minute_vec[sec_bucket], in_s)]
       ELSE [FastForward(r.minute_vec, last_sec_bucket + 1,
                 minutes_different(last_sec_bucket + 1, sec_bucket),
                 60, DefaultVal(agg))
             EXCEPT ![sec_bucket] = in_s]

RrdSameMinute_StaleRollup(agg, r, in_s, in_time) ==
    LET mv == SameMinuteSeconds(agg, r, in_s, in_time)
        hv == [r.hour_vec EXCEPT ![MinBucket(in_time)] = CombineVector(agg, r.minute_vec)]
        dv == [r.day_vec EXCEPT ![HourBucket(in_time)] = CombineVector(agg, r.hour_vec)]
    IN [last_time |-> in_time, minute_vec |-> mv, hour_vec |-> hv, day_vec |-> dv]

RrdSameMinute(agg, r, in_s, in_time) ==
    LET mv == SameMinuteSeconds(agg, r, in_s, in_time)
        sec_avg == CombineVector(agg, mv)
        hv == [r.hour_vec EXCEPT ![MinBucket(in_time)] = sec_avg]
        min_avg == CombineVector(agg, hv)
        dv == [r.day_vec EXCEPT ![HourBucket(in_time)] = min_avg]
    IN [last_time |-> in_time, minute_vec |-> mv, hour_vec |-> hv, day_vec |-> dv]

RrdAddSample_NoStaleCheck(agg, r, in_s, in_time) ==
    IF in_time - r.last_time > SecsPerDay THEN RrdDayReset(agg, r, in_s, in_time)
    ELSE IF in_time - r.last_time > SecsPerHour THEN RrdHourGap(agg, r, in_s, in_time)
    ELSE IF in_time - r.last_time > SecsPerMinute THEN RrdMinuteGap(agg, r, in_s, in_time)
    ELSE RrdSameMinute(agg, r, in_s, in_time)

RrdAddSample(agg, r, in_s, in_time) ==
    IF in_time < r.last_time THEN r
    ELSE IF in_time - r.last_time > SecsPerDay THEN RrdDayReset(agg, r, in_s, in_time)
    ELSE IF in_time - r.last_time > SecsPerHour THEN RrdHourGap(agg, r, in_s, in_time)
    ELSE IF in_time - r.last_time > SecsPerMinute THEN RrdMinuteGap(agg, r, in_s, in_time)
    ELSE RrdSameMinute(agg, r, in_s, in_time)

\* ------------------------------------------ kis_tracked_minute_rrd::add_sample

MinuteRrdAddSample(agg, r, in_s, in_time) ==
    IF in_time < r.last_time THEN r
    ELSE IF in_time - r.last_time > SecsPerMinute
    THEN [r EXCEPT !.last_time = in_time,
                   !.minute_vec = [i \in DOMAIN r.minute_vec |->
                                      IF i < 60 THEN DefaultVal(agg)
                                      ELSE r.minute_vec[i]]]
    ELSE [r EXCEPT !.last_time = in_time,
                   !.minute_vec = SameMinuteSeconds(agg, r, in_s, in_time)]

\* ------------------------------------------------------------- dispatching

AddSample(variant, agg, r, in_s, in_time) ==
    IF variant = "rrd"
    THEN RrdAddSample(agg, r, in_s, in_time)
    ELSE MinuteRrdAddSample(agg, r, in_s, in_time)

\* ------------------------------------------------------------------- state

VARIABLES
    variant,        \* which record class the object is
    agg,            \* the Aggregator template argument
    last_time,      \* kismet.common.rrd.last_time
    minute_vec,     \* 60 second-slots
    hour_vec,       \* 60 minute-slots (empty in the minute-only record)
    day_vec,        \* 24 hour-slots (empty in the minute-only record)
    update_first,   \* update_before_serialize flag
    e,              \* the map the constructor was handed (NULL: built fresh)
    nodes,          \* the TrackerElement arena of the value-tree specifications
    call,           \* the last call made: operation, arguments, ltime read
    ncalls          \* calls made so far

vars == <<variant, agg, last_time, minute_vec, hour_vec, day_vec,
          update_first, e, nodes, call, ncalls>>

Rrd == [last_time |-> last_time, minute_vec |-> minute_vec,
        hour_vec |-> hour_vec, day_vec |-> day_vec]

\* A freshly built record: constructor, register_fields, reserve_fields(NULL).
FreshRrd(v) ==
    [last_time |-> 0,
     minute_vec |-> [i \in 0 .. SecondSlots - 1 |-> 0],
     hour_vec |-> IF v = "rrd" THEN [i \in 0 .. MinuteSlots - 1 |-> 0] ELSE << >>,
     day_vec |-> IF v = "rrd" THEN [i \in 0 .. HourSlots - 1 |-> 0] ELSE << >>]

\* No map handed to the constructor.
NULL == "NULL"

Ring(n, val) == [i \in 0 .. n - 1 |-> val]

\* Length of a stored ring that should have n slots: missing, one short,
\* as expected, or StoredExtra too long.
StoredLen(shape, n) ==
    CASE shape = "missing" -> 0
      [] shape = "short" -> n - 1
      [] shape = "exact" -> n
      [] shape = "long" -> n + StoredExtra

\* A map rebuilt from storage: its last_time and its rings, every stored slot
\* holding val.
StoredMap(v, shape, t, val) ==
    [last_time |-> t,
     minute_vec |-> Ring(StoredLen(shape, SecondSlots), val),
     hour_vec |-> IF v = "rrd" THEN Ring(StoredLen(shape, MinuteSlots), val)
                  ELSE << >>,
     day_vec |-> IF v = "rrd" THEN Ring(StoredLen(shape, HourSlots), val)
                 ELSE << >>]

\* tracker_component::reserve_fields binds each declared field to the child
\* of that id in the map handed in, so the record starts on the stored rings.
\* "if ((x = vec->size()) != n) for ( ; x < n; x++) add_vector(new slot)":
\* a ring is only ever extended, by slots holding 0.
ReserveSlots(v, n) ==
    [i \in 0 .. (IF VecSize(v) < n THEN n ELSE VecSize(v)) - 1 |->
        IF i < VecSize(v) THEN v[i] ELSE 0]

\* reserve_fields(e) of the two record classes.
ReserveFields(v, m) ==
    [last_time |-> IF v = "rrd" THEN m.last_time ELSE 0,
     minute_vec |-> ReserveSlots(m.minute_vec, 60),
     hour_vec |-> IF v = "rrd" THEN ReserveSlots(m.hour_vec, 60) ELSE << >>,
     day_vec |-> IF v = "rrd" THEN ReserveSlots(m.day_vec, 24) ELSE << >>]

Init ==
    /\ variant \in Variants
    /\ agg \in Policies
    /\ last_time = FreshRrd(variant).last_time
    /\ minute_vec = FreshRrd(variant).minute_vec
    /\ hour_vec = FreshRrd(variant).hour_vec
    /\ day_vec = FreshRrd(variant).day_vec
    /\ update_first = TRUE
    /\ e = NULL
    /\ nodes = << >>
    /\ call = [op |-> "construct", in_s |-> 0, in_time |-> 0, ltime |-> 0,
               sampled |-> FALSE]
    /\ ncalls = 0

Store(r) ==
    /\ last_time' = r.last_time
    /\ minute_vec' = r.minute_vec
    /\ hour_vec' = r.hour_vec
    /\ day_vec' = r.day_vec

\* add_sample(in_s, in_time)
DoAddSample(in_s, in_time) ==
    /\ ncalls < MaxCalls
    /\ Store(AddSample(variant, agg, Rrd, in_s, in_time))
    /\ call' = [op |-> "add_sample", in_s |-> in_s, in_time |-> in_time,
                ltime |-> last_time, sampled |-> TRUE]
    /\ ncalls' = ncalls + 1
    /\ UNCHANGED <<variant, agg, update_first, e, nodes>>

PreSerialize_Always(now) ==
    /\ ncalls < MaxCalls
    /\ Store(AddSample(variant, agg, Rrd, DefaultVal(agg), now))
    /\ call' = [op |-> "pre_serialize", in_s |-> DefaultVal(agg), in_time |-> now,
                ltime |-> last_time, sampled |-> update_first]
    /\ ncalls' = ncalls + 1
    /\ UNCHANGED <<variant, agg, update_first, e, nodes>>

\* pre_serialize() with globalreg->timestamp.tv_sec reading now
PreSerialize(now) ==
    /\ ncalls < MaxCalls
    /\ IF update_first
       THEN Store(AddSample(variant, agg, Rrd, DefaultVal(agg), now))
       ELSE UNCHANGED <<last_time, minute_vec, hour_vec, day_vec>>
    /\ call' = [op |-> "pre_serialize", in_s |-> DefaultVal(agg), in_time |-> now,
                ltime |-> last_time, sampled |-> update_first]
    /\ ncalls' = ncalls + 1
    /\ UNCHANGED <<variant, agg, update_first, e, nodes>>

\* update_before_serialize(in_upd)
UpdateBeforeSerialize(in_upd) ==
    /\ ncalls < MaxCalls
    /\ update_first' = in_upd
    /\ call' = [op |-> "update_before_serialize", in_s |-> 0, in_time |-> 0,
                ltime |-> last_time, sampled |-> FALSE]
    /\ ncalls' = ncalls + 1
    /\ UNCHANGED <<variant, agg, last_time, minute_vec, hour_vec, day_vec, e,
                   nodes>>

Next ==
    \/ \E in_s \in Samples, in_time \in Times : DoAddSample(in_s, in_time)
    \/ \E now \in Times : PreSerialize(now)
    \/ \E in_upd \in BOOLEAN : UpdateBeforeSerialize(in_upd)

Spec == Init /\ [][Next]_vars

\* The record built by the attaching constructor on a map from storage.
AttachInit ==
    /\ variant \in Variants
    /\ agg \in Policies
    /\ \E shape \in StoredShapes, t \in StoredTimes, val \in StoredVals :
          e = StoredMap(variant, shape, t, val)
    /\ nodes = << >>
    /\ last_time = ReserveFields(variant, e).last_time
    /\ minute_vec = ReserveFields(variant, e).minute_vec
    /\ hour_vec = ReserveFields(variant, e).hour_vec
    /\ day_vec = ReserveFields(variant, e).day_vec
    /\ update_first = TRUE
    /\ call = [op |-> "construct", in_s |-> 0, in_time |-> 0, ltime |-> 0,
               sampled |-> FALSE]
    /\ ncalls = 0

SpecAttach == AttachInit /\ [][Next]_vars

\* ---------------------------------------- add_sample on a slot of another kind

\* The slot writes of add_sample are (*i)->set(int64_t) on the children of the
\* rings, and combine_vector reads every child with GetTrackerValue<int64_t>;
\* both throw a type mismatch on a child that is not a TrackerInt64.  A ring
\* bound from a stored map holds whatever children the map held.  Here the
\* seconds ring holds one child of another kind, at index bad.

\* The loop "for (i = mv.begin(); i != mv.end(); ++i) (*i)->set(...)" that
\* opens the three gap branches: the slots before bad are written, then the
\* set on bad throws.
WipeUntilBad(policy, v, bad, bucket, val) ==
    [i \in DOMAIN v |->
        IF i < bad THEN (IF i = bucket THEN val ELSE DefaultVal(policy)) ELSE v[i]]

\* The fast-forward loop of the last branch, s = 0, 1, ...: the slots it
\* reaches before bad are written.
FastForwardUntilBad(policy, v, bad, start, cnt) ==
    [i \in DOMAIN v |->
        IF \E k \in 0 .. cnt - 1 :
              /\ i = (start + k) % 60
              /\ \A j \in 0 .. k : (start + j) % 60 # bad
        THEN DefaultVal(policy) ELSE v[i]]

\* kis_tracked_rrd::add_sample on such a record: what it leaves, and the
\* exception it throws.  Some statement of every branch touches every child
\* of the seconds ring, so only a stale sample returns normally.
RrdAddSampleBadSlot(policy, r, bad, in_s, in_time) ==
    LET sec_bucket == SecBucket(in_time)
        last_sec_bucket == SecBucket(r.last_time)
        cnt == minutes_different(last_sec_bucket + 1, sec_bucket)
        reached == \E k \in 0 .. cnt - 1 : (last_sec_bucket + 1 + k) % 60 = bad
        forwarded == FastForwardUntilBad(policy, r.minute_vec, bad,
                                         last_sec_bucket + 1, cnt)
    IN IF in_time < r.last_time THEN [r |-> r, error |-> "none"]
       ELSE IF in_time - r.last_time > SecsPerMinute
       THEN [r |-> [r EXCEPT !.minute_vec =
                        WipeUntilBad(policy, @, bad, sec_bucket, in_s)],
             error |-> "type_mismatch"]
       ELSE IF in_time = r.last_time
       THEN [r |-> IF sec_bucket = bad THEN r
                   ELSE [r EXCEPT !.minute_vec[sec_bucket] =
                            CombineElement(policy, @, in_s)],
             error |-> "type_mismatch"]
       ELSE [r |-> IF reached \/ sec_bucket = bad
                   THEN [r EXCEPT !.minute_vec = forwarded]
                   ELSE [r EXCEPT !.minute_vec =
                            [forwarded EXCEPT ![sec_bucket] = in_s]],
             error |-> "type_mismatch"]

\* A full RRD attached to a stored map whose seconds ring holds one child of
\* another kind.
BadSlotInit ==
    /\ variant = "rrd"
    /\ agg \in Policies
    /\ \E t \in StoredTimes, val \in StoredVals, bad \in BadSlots :
          e = [bad_slot |-> bad] @@ StoredMap(variant, "exact", t, val)
    /\ nodes = << >>
    /\ last_time = ReserveFields(variant, e).last_time
    /\ minute_vec = ReserveFields(variant, e).minute_vec
    /\ hour_vec = ReserveFields(variant, e).hour_vec
    /\ day_vec = ReserveFields(variant, e).day_vec
    /\ update_first = TRUE
    /\ call = [op |-> "construct", in_s |-> 0, in_time |-> 0, ltime |-> 0,
               sampled |-> FALSE, error |-> "none"]
    /\ ncalls = 0

\* add_sample(in_s, in_time) on that record
DoAddSampleBadSlot(in_s, in_time) ==
    /\ ncalls < MaxCalls
    /\ Store(RrdAddSampleBadSlot(agg, Rrd, e.bad_slot, in_s, in_time).r)
    /\ call' = [op |-> "add_sample", in_s |-> in_s, in_time |-> in_time,
                ltime |-> last_time, sampled |-> TRUE,
                error |-> RrdAddSampleBadSlot(agg, Rrd, e.bad_slot, in_s,
                                              in_time).error]
    /\ ncalls' = ncalls + 1
    /\ UNCHANGED <<variant, agg, update_first, e, nodes>>

BadSlotNext ==
    \E in_s \in Samples, in_time \in Times : DoAddSampleBadSlot(in_s, in_time)

SpecBadSlot == BadSlotInit /\ [][BadSlotNext]_vars

\* ------------------------------------------------------------ TrackerElement

Node == 1 .. NumNodes

ContainerKinds == {"vector", "map", "intmap", "macmap"}
NumericKinds == {"int8", "uint8", "int16", "uint16", "int32", "uint32",
                 "int64", "uint64", "float", "double"}
ScalarKinds == NumericKinds \cup {"string", "mac", "uuid"}
Kinds == ScalarKinds \cup ContainerKinds

\* TrackerElement(type): every value zero, no children, reference_count 0.
NewElement(type) ==
    [type |-> type, alive |-> TRUE, reference_count |-> 0, value |-> 0,
     subvector_value |-> << >>, submap_value |-> << >>,
     subintmap_value |-> << >>, submacmap_value |-> << >>]

\* What is left of a node once its destructor has run.
Freed(el) ==
    [el EXCEPT !.alive = FALSE,
               !.subvector_value = << >>, !.submap_value = << >>,
               !.subintmap_value = << >>, !.submacmap_value = << >>]

\* std::map: m[k] = s, m.erase(k), and the mapped values in key order.
MapPut(m, k, s) == [x \in DOMAIN m \cup {k} |-> IF x = k THEN s ELSE m[x]]

MapErase(m, k) == [x \in DOMAIN m \ {k} |-> m[x]]

RECURSIVE MapValues(_)
MapValues(m) ==
    IF DOMAIN m = {} THEN << >>
    ELSE LET k == CHOOSE x \in DOMAIN m : \A y \in DOMAIN m : x <= y
         IN <<m[k]>> \o MapValues(MapErase(m, k))

\* The child slots the destructor walks, chosen by the node's type.
Slots(el) ==
    CASE el.type = "vector" -> el.subvector_value
      [] el.type = "map" -> MapValues(el.submap_value)
      [] el.type = "intmap" -> MapValues(el.subintmap_value)
      [] el.type = "macmap" -> MapValues(el.submacmap_value)
      [] OTHER -> << >>

\* size()
Size(el) ==
    CASE el.type = "vector" -> Len(el.subvector_value)
      [] el.type = "map" -> Cardinality(DOMAIN el.submap_value)
      [] el.type = "intmap" -> Cardinality(DOMAIN el.subintmap_value)
      [] el.type = "macmap" -> Cardinality(DOMAIN el.submacmap_value)
      [] OTHER -> -1

\* find(k) != end() on a map or an intmap node
Found(el, k) ==
    CASE el.type = "map" -> k \in DOMAIN el.submap_value
      [] el.type = "intmap" -> k \in DOMAIN el.subintmap_value
      [] OTHER -> FALSE

\* A heap h is the arena of nodes, the exception the running call has thrown
\* ("none" if it has not), and whether the call has run into undefined
\* behaviour (a read through an invalidated iterator, past the end of a
\* vector, or of a node already destroyed).
Heap(ns) == [nodes |-> ns, error |-> "none", ub |-> FALSE]

Throw(h, what) == [h EXCEPT !.error = what]

\* link(): one more container holds the node.
Link(h, n) ==
    IF h.nodes[n].alive
    THEN [h EXCEPT !.nodes[n].reference_count = @ + 1]
    ELSE [h EXCEPT !.ub = TRUE]

RECURSIVE Unlink(_, _)
RECURSIVE UnlinkAll(_, _)
RECURSIVE Destructor(_, _)

Destructor_UnlinkFirst(h, n) ==
    LET h1 == UnlinkAll(h, Slots(h.nodes[n]))
    IN IF h.nodes[n].reference_count # 0
       THEN Throw(h1, "refcount")
       ELSE [h1 EXCEPT !.nodes[n] = Freed(@)]

\* ~TrackerElement(): throws while the node is still referenced, before it
\* touches a child; otherwise unlinks every child slot.
Destructor(h, n) ==
    IF h.nodes[n].reference_count # 0
    THEN Throw(h, "refcount")
    ELSE LET h1 == UnlinkAll(h, Slots(h.nodes[n]))
         IN [h1 EXCEPT !.nodes[n] = Freed(@)]

\* unlink(): one container fewer holds the node; the node is deleted when
\* the count reaches zero.
Unlink(h, n) ==
    IF ~h.nodes[n].alive
    THEN [h EXCEPT !.ub = TRUE]
    ELSE LET h1 == [h EXCEPT !.nodes[n].reference_count = @ - 1]
         IN IF h1.nodes[n].reference_count = 0 THEN Destructor(h1, n) ELSE h1

UnlinkAll(h, s) ==
    IF s = << >> THEN h ELSE UnlinkAll(Unlink(h, Head(s)), Tail(s))

\* add_vector(s)
add_vector(h, t, s) ==
    IF h.nodes[t].type # "vector" THEN Throw(h, "type_mismatch")
    ELSE Link([h EXCEPT !.nodes[t].subvector_value = Append(@, s)], s)

\* operator+=(const TrackerElement *): push_back, and no link()
append_element(h, t, s) ==
    IF h.nodes[t].type = "vector"
    THEN [h EXCEPT !.nodes[t].subvector_value = Append(@, s)]
    ELSE Throw(h, "type_mismatch")

\* del_vector(p), p counted from 0.  The guard is p > size(): with p = size()
\* the element is read past the end of the vector and erase() is handed
\* end().  past is what that read yields: a node, which is then unlinked, or
\* 0 when the process faults on it.
del_vector(h, t, p, past) ==
    IF h.nodes[t].type # "vector" THEN Throw(h, "type_mismatch")
    ELSE IF p > Len(h.nodes[t].subvector_value) THEN Throw(h, "range")
    ELSE IF p = Len(h.nodes[t].subvector_value)
    THEN IF past = 0 THEN [h EXCEPT !.ub = TRUE]
         ELSE Unlink([h EXCEPT !.ub = TRUE], past)
    ELSE LET el == h.nodes[t].subvector_value[p + 1]
         IN Unlink([h EXCEPT !.nodes[t].subvector_value =
                        SubSeq(@, 1, p) \o SubSeq(@, p + 2, Len(@))], el)

\* clear_vector()
clear_vector(h, t) ==
    IF h.nodes[t].type # "vector" THEN Throw(h, "type_mismatch")
    ELSE LET h1 == UnlinkAll(h, h.nodes[t].subvector_value)
         IN [h1 EXCEPT !.nodes[t].subvector_value = << >>]

\* The body shared by add_map, add_intmap and add_macmap on their payload:
\* unlink the child the key holds, store s, link s.
AddKeyed(h, t, kind, payload, k, s) ==
    IF h.nodes[t].type # kind THEN Throw(h, "type_mismatch")
    ELSE LET h1 == IF k \in DOMAIN h.nodes[t][payload]
                   THEN Unlink(h, h.nodes[t][payload][k])
                   ELSE h
         IN Link([h1 EXCEPT !.nodes[t][payload] = MapPut(@, k, s)], s)

\* add_map(f, s); add_map(s) is add_map(s->get_id(), s)
add_map(h, t, k, s) == AddKeyed(h, t, "map", "submap_value", k, s)

\* add_intmap(i, s)
add_intmap(h, t, k, s) == AddKeyed(h, t, "intmap", "subintmap_value", k, s)

\* add_macmap(i, s)
add_macmap(h, t, k, s) == AddKeyed(h, t, "macmap", "submacmap_value", k, s)

\* The body shared by del_map and del_macmap: erase(i), then i->second->unlink()
\* through the iterator erase() has invalidated.  intact says whether the
\* erased map node still reads as it did (the child is unlinked) or the
\* process faults on the read.
EraseThenUnlink(h, t, payload, k, intact) ==
    IF k \notin DOMAIN h.nodes[t][payload] THEN h
    ELSE LET h1 == [h EXCEPT !.nodes[t][payload] = MapErase(@, k), !.ub = TRUE]
         IN IF intact THEN Unlink(h1, h.nodes[t][payload][k]) ELSE h1

\* del_map(f); del_map(e) is del_map(e->get_id())
del_map(h, t, k, intact) ==
    IF h.nodes[t].type # "map" THEN Throw(h, "type_mismatch")
    ELSE EraseThenUnlink(h, t, "submap_value", k, intact)

\* del_macmap(f): the type checked is TrackerMap
del_macmap(h, t, k, intact) ==
    IF h.nodes[t].type # "map" THEN Throw(h, "type_mismatch")
    ELSE EraseThenUnlink(h, t, "submacmap_value", k, intact)

\* del_intmap(i): the erase is submap_value.erase(i), so the entry stays in
\* subintmap_value while its child is unlinked
del_intmap(h, t, k) ==
    IF h.nodes[t].type # "intmap" THEN Throw(h, "type_mismatch")
    ELSE IF k \notin DOMAIN h.nodes[t].subintmap_value THEN h
    ELSE Unlink([h EXCEPT !.nodes[t].submap_value = MapErase(@, k)],
                h.nodes[t].subintmap_value[k])

\* No RRD record in the value-tree specifications.
NoRrd ==
    /\ variant = "none"
    /\ agg = "none"
    /\ last_time = 0
    /\ minute_vec = << >>
    /\ hour_vec = << >>
    /\ day_vec = << >>
    /\ update_first = FALSE
    /\ e = NULL

rrdvars == <<variant, agg, last_time, minute_vec, hour_vec, day_vec,
             update_first, e>>

\* Three nodes the caller has built: node 1 and node 2 containers, the last a
\* scalar.  A container is only handed nodes of a higher index, which keeps
\* the membership graph acyclic.
TreeInit ==
    /\ NoRrd
    /\ \E k1 \in ContainerKinds, k2 \in ContainerKinds :
          nodes = [n \in Node |->
                     IF n = 1 THEN NewElement(k1)
                     ELSE IF n = 2 THEN NewElement(k2)
                     ELSE NewElement("int64")]
    /\ call = [op |-> "construct", t |-> 0, k |-> 0, s |-> 0,
               error |-> "none", ub |-> FALSE]
    /\ ncalls = 0

\* The caller calls a method of a node it still holds, with arguments op, key
\* or position k and child s; h is the heap the method leaves.
TreeCall(op, t, k, s, h) ==
    /\ ncalls < MaxTreeCalls
    /\ nodes[t].alive
    /\ nodes' = h.nodes
    /\ call' = [op |-> op, t |-> t, k |-> k, s |-> s,
                error |-> h.error, ub |-> h.ub]
    /\ ncalls' = ncalls + 1
    /\ UNCHANGED rrdvars

\* The child handed to an insert: alive, and below the container.
Insertable(t, s) == s > t /\ nodes[s].alive

\* A method whose type check fails reads none of its arguments, so one
\* argument tuple (the least key or position, the next node) stands for all.
ArgsRead(t, kind, k, s) ==
    nodes[t].type # kind => (k = 0 /\ s \in {0, t + 1})

AddVector(t, s) ==
    Insertable(t, s) /\ ArgsRead(t, "vector", 0, s) /\ TreeCall("add_vector", t, 0, s, add_vector(Heap(nodes), t, s))

AppendElement(t, s) ==
    Insertable(t, s) /\ ArgsRead(t, "vector", 0, s) /\ TreeCall("operator+=", t, 0, s, append_element(Heap(nodes), t, s))

\* past is drawn only when the call reads past the end
DelVector(t, p, past) ==
    /\ past # 0 => (nodes[t].type = "vector" /\ p = Len(nodes[t].subvector_value))
    /\ ArgsRead(t, "vector", p, 0)
    /\ TreeCall("del_vector", t, p, 0, del_vector(Heap(nodes), t, p, past))

ClearVector(t) ==
    TreeCall("clear_vector", t, 0, 0, clear_vector(Heap(nodes), t))

AddMap(t, k, s) ==
    Insertable(t, s) /\ ArgsRead(t, "map", k - 1, s) /\ TreeCall("add_map", t, k, s, add_map(Heap(nodes), t, k, s))

\* intact is drawn only when the call erases an entry
DelMap(t, k, intact) ==
    /\ ~intact => (nodes[t].type = "map" /\ k \in DOMAIN nodes[t].submap_value)
    /\ ArgsRead(t, "map", k - 1, 0)
    /\ TreeCall("del_map", t, k, 0, del_map(Heap(nodes), t, k, intact))

AddIntmap(t, k, s) ==
    Insertable(t, s) /\ ArgsRead(t, "intmap", k - 1, s) /\ TreeCall("add_intmap", t, k, s, add_intmap(Heap(nodes), t, k, s))

DelIntmap(t, k) ==
    ArgsRead(t, "intmap", k - 1, 0) /\ TreeCall("del_intmap", t, k, 0, del_intmap(Heap(nodes), t, k))

AddMacmap(t, k, s) ==
    Insertable(t, s) /\ ArgsRead(t, "macmap", k - 1, s) /\ TreeCall("add_macmap", t, k, s, add_macmap(Heap(nodes), t, k, s))

DelMacmap(t, k, intact) ==
    /\ ~intact => (nodes[t].type = "map" /\ k \in DOMAIN nodes[t].submacmap_value)
    /\ ArgsRead(t, "map", k - 1, 0)
    /\ TreeCall("del_macmap", t, k, 0, del_macmap(Heap(nodes), t, k, intact))

\* delete of a node by the caller that holds it
DeleteElement(t) ==
    TreeCall("delete", t, 0, 0, Destructor(Heap(nodes), t))

TreeNext ==
    \/ \E t \in Node, s \in Node : AddVector(t, s)
    \/ \E t \in Node, s \in Node : AppendElement(t, s)
    \/ \E t \in Node, p \in Positions, past \in {0} \cup Node : DelVector(t, p, past)
    \/ \E t \in Node : ClearVector(t)
    \/ \E t \in Node, k \in Keys, s \in Node : AddMap(t, k, s)
    \/ \E t \in Node, k \in Keys, intact \in BOOLEAN : DelMap(t, k, intact)
    \/ \E t \in Node, k \in Keys, s \in Node : AddIntmap(t, k, s)
    \/ \E t \in Node, k \in Keys : DelIntmap(t, k)
    \/ \E t \in Node, k \in Keys, s \in Node : AddMacmap(t, k, s)
    \/ \E t \in Node, k \in Keys, intact \in BOOLEAN : DelMacmap(t, k, intact)
    \/ \E t \in Node : DeleteElement(t)

SpecTree == TreeInit /\ [][TreeNext]_vars

\* ------------------------------------------------------------ scalar nodes

\* The outcome of a method of one node: the node it leaves, the exception it
\* has thrown ("none" if it returned), and the value it returned.
Returned(el, ret) == [el |-> el, error |-> "none", ret |-> ret]

Thrown(el, what) == [el |-> el, error |-> what, ret |-> 0]

\* The typed getters get_int8() ... get_uuid(): except_type_mismatch(kind),
\* then the value.
TypedGet(el, kind) ==
    IF el.type # kind THEN Thrown(el, "type_mismatch")
    ELSE Returned(el, el.value)

\* The typed setters set(v): except_type_mismatch(kind), then the store.
TypedSet(el, kind, v) ==
    IF el.type # kind THEN Thrown(el, "type_mismatch")
    ELSE Returned([el EXCEPT !.value = v], 0)

\* The getter each GetTrackerValue<T> specialization calls.
Getter(T) == IF T = "uint8" THEN "int8" ELSE T

\* Conversion of the getter's result to the return type T.
ReturnAs(T, v) == IF T = "uint8" /\ v < 0 THEN v + 256 ELSE v

\* template<> T GetTrackerValue(TrackerElement *e)
GetTrackerValue(el, T) ==
    LET got == TypedGet(el, Getter(T))
    IN IF got.error # "none" THEN got ELSE Returned(el, ReturnAs(T, got.ret))

\* operator++(int)
increment(el) ==
    IF el.type \in NumericKinds THEN Returned([el EXCEPT !.value = @ + 1], 0)
    ELSE Thrown(el, "type_mismatch")

\* operator+=(const int &)
add_assign_int(el, v) ==
    IF el.type \in NumericKinds THEN Returned([el EXCEPT !.value = @ + v], 0)
    ELSE Thrown(el, "type_mismatch")

\* operator+=(const float &)
add_assign_float(el, v) ==
    IF el.type \in {"float", "double"} THEN Returned([el EXCEPT !.value = @ + v], 0)
    ELSE Thrown(el, "type_mismatch")

RECURSIVE BitOr(_, _)
\* a | b on non-negative operands
BitOr(a, b) ==
    IF a = 0 THEN b
    ELSE IF b = 0 THEN a
    ELSE (IF a % 2 = 1 \/ b % 2 = 1 THEN 1 ELSE 0) + 2 * BitOr(a \div 2, b \div 2)

\* operator|=(T i) for the eight integer types T
or_assign(el, T, v) ==
    IF el.type # T THEN Thrown(el, "type_mismatch")
    ELSE Returned([el EXCEPT !.value = BitOr(@, v)], 0)

IntegerKinds == NumericKinds \ {"float", "double"}

\* One node of any kind, as its constructor leaves it.
ScalarInit ==
    /\ NoRrd
    /\ \E kind \in Kinds : nodes = <<NewElement(kind)>>
    /\ call = [op |-> "construct", T |-> "none", v |-> 0,
               error |-> "none", ret |-> 0]
    /\ ncalls = 0

\* The caller calls a method of the node with type argument T and value v;
\* out is the outcome.
ScalarCall(op, T, v, out) ==
    /\ ncalls < MaxTreeCalls
    /\ nodes' = <<out.el>>
    /\ call' = [op |-> op, T |-> T, v |-> v, error |-> out.error, ret |-> out.ret]
    /\ ncalls' = ncalls + 1
    /\ UNCHANGED rrdvars

\* A setter or operator whose type check fails reads no argument: the least
\* value stands for all.
ValueRead(T, v) == nodes[1].type # T => \A w \in SetVals : v <= w

SetValue(T, v) ==
    ValueRead(T, v) /\ ScalarCall("set", T, v, TypedSet(nodes[1], T, v))

DoGetTrackerValue(T) ==
    ScalarCall("GetTrackerValue", T, 0, GetTrackerValue(nodes[1], T))

Increment ==
    ScalarCall("operator++", "none", 0, increment(nodes[1]))

AddAssignInt(v) ==
    ScalarCall("operator+=(int)", "none", v, add_assign_int(nodes[1], v))

AddAssignFloat(v) ==
    ScalarCall("operator+=(float)", "none", v, add_assign_float(nodes[1], v))

OrAssign(T, v) ==
    ValueRead(T, v) /\ ScalarCall("operator|=", T, v, or_assign(nodes[1], T, v))

ScalarNext ==
    \/ \E T \in ScalarKinds, v \in SetVals : SetValue(T, v)
    \/ \E T \in ScalarKinds : DoGetTrackerValue(T)
    \/ Increment
    \/ \E v \in SetVals : AddAssignInt(v)
    \/ \E v \in SetVals : AddAssignFloat(v)
    \/ \E T \in IntegerKinds, v \in SetVals : OrAssign(T, v)

SpecScalar == ScalarInit /\ [][ScalarNext]_vars

\* ------------------------------------------------- aggregators called alone

\* The buckets handed to combine_vector: every sequence of at most MaxBucket
\* slots over BucketVals, indexed from 0 as the rings are.
Buckets == UNION {[0 .. n - 1 -> BucketVals] : n \in 0 .. MaxBucket}

\* "avg / v.size()" of the sum and the extreme policy on a vector without
\* slots divides by zero; the peak policy returns before its division.
DividesByZero(policy, v) ==
    policy \in {"default", "extreme"} /\ VecSize(v) = 0

AggInit ==
    /\ NoRrd
    /\ nodes = << >>
    /\ call = [op |-> "construct", policy |-> "none", a |-> 0, b |-> 0,
               v |-> << >>, ret |-> 0, divzero |-> FALSE]
    /\ ncalls = 0

\* The aggregators are static functions without state: a behaviour is one
\* call on inputs of its choice.
\* Aggregator::combine_element(a, b)
DoCombineElement(policy, a, b) ==
    /\ call.op = "construct"
    /\ call' = [op |-> "combine_element", policy |-> policy, a |-> a, b |-> b,
                v |-> << >>, ret |-> CombineElement(policy, a, b),
                divzero |-> FALSE]
    /\ UNCHANGED <<rrdvars, nodes, ncalls>>

\* Aggregator::combine_vector(v).  A division by zero is undefined: it
\* either traps (no value is returned, ret is left 0) or yields some word.
DoCombineVector(policy, v, word) ==
    /\ call.op = "construct"
    /\ word # 0 => DividesByZero(policy, v)
    /\ call' = [op |-> "combine_vector", policy |-> policy, a |-> 0, b |-> 0,
                v |-> v,
                ret |-> IF DividesByZero(policy, v) THEN word
                        ELSE CombineVector(policy, v),
                divzero |-> DividesByZero(policy, v)]
    /\ UNCHANGED <<rrdvars, nodes, ncalls>>

\* Aggregator::default_val()
DoDefaultVal(policy) ==
    /\ call.op = "construct"
    /\ call' = [op |-> "default_val", policy |-> policy, a |-> 0, b |-> 0,
                v |-> << >>, ret |-> DefaultVal(policy), divzero |-> FALSE]
    /\ UNCHANGED <<rrdvars, nodes, ncalls>>

AggNext ==
    \/ \E policy \in Policies, a \in ElemVals, b \in ElemVals :
          DoCombineElement(policy, a, b)
    \/ \E policy \in Policies, v \in Buckets, word \in {0, -1} :
          DoCombineVector(policy, v, word)
    \/ \E policy \in Policies : DoDefaultVal(policy)

SpecAgg == AggInit /\ [][AggNext]_vars

\* ------------------------------------------------------ structured records

\* The record classes of the header; the two RRD classes are templates over
\* the aggregator.
RecordClasses ==
    {[class |-> c, agg |-> a] :
        c \in {"kis_tracked_rrd", "kis_tracked_minute_rrd"}, a \in Policies}
    \cup {[class |-> c, agg |-> "none"] :
        c \in {"kis_tracked_ip_data", "kis_tracked_location_triplet",
               "kis_tracked_location", "kis_tracked_signal_data",
               "kis_tracked_seenby_data"}}

FieldIds == 0 .. MaxFieldId

\* Class(globalreg, in_id) and Class(globalreg, in_id, e): the record keeps
\* the id; reserve_fields(NULL) builds empty fields, reserve_fields(e) binds
\* the fields of the stored map e.
NewRecord(cls, id, stored) ==
    [class |-> cls.class, agg |-> cls.agg, id |-> id, stored |-> stored]

\* clone_type() of each class: new Class(globalreg, get_id()).
clone_type(self) ==
    CASE self.class = "kis_tracked_rrd"
           -> NewRecord([class |-> "kis_tracked_rrd", agg |-> self.agg],
                        self.id, FALSE)
      [] self.class = "kis_tracked_minute_rrd"
           -> NewRecord([class |-> "kis_tracked_minute_rrd", agg |-> self.agg],
                        self.id, FALSE)
      [] self.class = "kis_tracked_ip_data"
           -> NewRecord([class |-> "kis_tracked_ip_data", agg |-> "none"],
                        self.id, FALSE)
      [] self.class = "kis_tracked_location_triplet"
           -> NewRecord([class |-> "kis_tracked_location_triplet",
                         agg |-> "none"], self.id, FALSE)
      [] self.class = "kis_tracked_location"
           -> NewRecord([class |-> "kis_tracked_location", agg |-> "none"],
                        self.id, FALSE)
      [] self.class = "kis_tracked_signal_data"
           -> NewRecord([class |-> "kis_tracked_signal_data", agg |-> "none"],
                        self.id, FALSE)
      [] self.class = "kis_tracked_seenby_data"
           -> NewRecord([class |-> "kis_tracked_signal_data", agg |-> "none"],
                        self.id, FALSE)

\* A record of any class, built with either constructor.
RecordInit ==
    /\ NoRrd
    /\ nodes = << >>
    /\ \E cls \in RecordClasses, id \in FieldIds, stored \in BOOLEAN :
          call = [op |-> "construct", self |-> NewRecord(cls, id, stored),
                  ret |-> NULL]
    /\ ncalls = 0

DoCloneType ==
    /\ call.op = "construct"
    /\ call' = [op |-> "clone_type", self |-> call.self,
                ret |-> clone_type(call.self)]
    /\ UNCHANGED <<rrdvars, nodes, ncalls>>

RecordNext == DoCloneType

SpecRecord == RecordInit /\ [][RecordNext]_vars

\* ------------------------------------------------- kis_tracked_signal_data

\* The fields of a fresh signal record: register_fields, reserve_fields(NULL).
\* The signal_min_rrd child is the minute-only peak-signal record held in the
\* RRD variables.
FreshSignal ==
    [last_signal_dbm |-> 0, min_signal_dbm |-> 0, max_signal_dbm |-> 0,
     last_noise_dbm |-> 0, min_noise_dbm |-> 0, max_noise_dbm |-> 0,
     last_signal_rssi |-> 0, min_signal_rssi |-> 0, max_signal_rssi |-> 0,
     last_noise_rssi |-> 0, min_noise_rssi |-> 0, max_noise_rssi |-> 0,
     maxseenrate |-> 0, encodingset |-> 0, carrierset |-> 0,
     peak_loc |-> [lat |-> 0, lon |-> 0, alt |-> 0, fix |-> 0, valid |-> 0]]

\* in.lay1 == NULL and in.gps == NULL
NoLayer1 ==
    [signal_type |-> "null", signal_dbm |-> 0, noise_dbm |-> 0,
     signal_rssi |-> 0, noise_rssi |-> 0,
     carrier |-> 0, encoding |-> 0, datarate |-> 0]

NoGps == [null |-> TRUE, lat |-> 0, lon |-> 0, alt |-> 0, fix |-> 0]

\* kis_layer1_packinfo: a branch reads only the readings of its signal type,
\* so the readings of the other type are left 0.
Packets ==
    {[signal_type |-> "dbm", signal_dbm |-> sg, noise_dbm |-> ns,
      signal_rssi |-> 0, noise_rssi |-> 0,
      carrier |-> c, encoding |-> en, datarate |-> d] :
        sg \in DbmSignals, ns \in DbmNoises, c \in Carriers,
        en \in Encodings, d \in Datarates}
    \cup
    {[signal_type |-> "rssi", signal_dbm |-> 0, noise_dbm |-> 0,
      signal_rssi |-> sg, noise_rssi |-> ns,
      carrier |-> c, encoding |-> en, datarate |-> d] :
        sg \in RssiSignals, ns \in RssiNoises, c \in Carriers,
        en \in Encodings, d \in Datarates}

\* "if (*readf == 0 || *readf > v) writef->set(v)"
SetMin(f, readf, writef, v) ==
    IF f[readf] = 0 \/ f[readf] > v THEN [f EXCEPT ![writef] = v] ELSE f

\* "if (*maxf == 0 || *maxf < v) { maxf->set(v); peak_loc->set(gps) }"; the
\* layer-1 overload has no gps.
SetMax(f, maxf, v, gps) ==
    IF f[maxf] = 0 \/ f[maxf] < v
    THEN [f EXCEPT ![maxf] = v,
                   !.peak_loc = IF gps.null THEN @
                                ELSE [lat |-> gps.lat, lon |-> gps.lon,
                                      alt |-> gps.alt, fix |-> gps.fix,
                                      valid |-> 1]]
    ELSE f

\* One "if (reading != 0) { last, min, max }" block.
FoldReading(f, lastf, readf, writef, maxf, v, gps) ==
    IF v = 0 THEN f
    ELSE SetMax(SetMin([f EXCEPT ![lastf] = v], readf, writef, v), maxf, v, gps)

\* The dBm branch: signal, then noise.
FoldDbm(f, p, gps) ==
    FoldReading(
        FoldReading(f, "last_signal_dbm", "min_signal_dbm", "min_signal_dbm",
                    "max_signal_dbm", p.signal_dbm, gps),
        "last_noise_dbm", "min_noise_dbm", "min_noise_dbm", "max_noise_dbm",
        p.noise_dbm, NoGps)

\* The RSSI branch: the minimum test reads min_signal_rssi and the store
\* goes to min_signal_dbm.
FoldRssi(f, p, gps) ==
    FoldReading(
        FoldReading(f, "last_signal_rssi", "min_signal_rssi", "min_signal_dbm",
                    "max_signal_rssi", p.signal_rssi, gps),
        "last_noise_rssi", "min_noise_rssi", "min_noise_rssi", "max_noise_rssi",
        p.noise_rssi, NoGps)

\* carrierset |= carrier; encodingset |= encoding; maxseenrate
FoldSets(f, p) ==
    [f EXCEPT !.carrierset = BitOr(@, p.carrier),
              !.encodingset = BitOr(@, p.encoding),
              !.maxseenrate = IF @ < p.datarate THEN p.datarate ELSE @]

\* operator+=(const kis_layer1_packinfo&): the sets are folded inside the
\* RSSI branch.
FoldLayer1(f, p) ==
    IF p.signal_type = "dbm" THEN FoldDbm(f, p, NoGps)
    ELSE IF p.signal_type = "rssi" THEN FoldSets(FoldRssi(f, p, NoGps), p)
    ELSE f

\* operator+=(const Packinfo_Sig_Combo&) on the fields: the sets are folded
\* after the branches.
FoldCombo(f, p, gps) ==
    IF p = NoLayer1 THEN f
    ELSE FoldSets(IF p.signal_type = "dbm" THEN FoldDbm(f, p, gps)
                  ELSE IF p.signal_type = "rssi" THEN FoldRssi(f, p, gps)
                  ELSE f, p)

\* The reading the combo overload hands to signal_min_rrd->add_sample, 0 when
\* it makes no call.
ComboSample(p) ==
    IF p.signal_type = "dbm" THEN p.signal_dbm
    ELSE IF p.signal_type = "rssi" THEN p.signal_rssi
    ELSE 0

SignalInit ==
    /\ variant = "minute_rrd"
    /\ agg = "peak_signal"
    /\ last_time = FreshRrd(variant).last_time
    /\ minute_vec = FreshRrd(variant).minute_vec
    /\ hour_vec = FreshRrd(variant).hour_vec
    /\ day_vec = FreshRrd(variant).day_vec
    /\ update_first = TRUE
    /\ e = NULL
    /\ nodes = FreshSignal
    /\ call = [op |-> "construct", p |-> NoLayer1, gps |-> NoGps, now |-> 0]
    /\ ncalls = 0

\* record += lay1
AddLayer1(p) ==
    /\ ncalls < MaxSignalCalls
    /\ nodes' = FoldLayer1(nodes, p)
    /\ call' = [op |-> "layer1", p |-> p, gps |-> NoGps, now |-> 0]
    /\ ncalls' = ncalls + 1
    /\ UNCHANGED rrdvars

\* record += combo, at clock reading now
AddCombo(p, gps, now) ==
    /\ ncalls < MaxSignalCalls
    /\ nodes' = FoldCombo(nodes, p, gps)
    /\ IF ComboSample(p) # 0
       THEN Store(MinuteRrdAddSample(agg, Rrd, ComboSample(p), now))
       ELSE UNCHANGED <<last_time, minute_vec, hour_vec, day_vec>>
    /\ call' = [op |-> "combo", p |-> p, gps |-> gps, now |-> now]
    /\ ncalls' = ncalls + 1
    /\ UNCHANGED <<variant, agg, update_first, e>>

SignalNext ==
    \/ \E p \in Packets : AddLayer1(p)
    \/ \E p \in Packets \cup {NoLayer1}, gps \in GpsFixes \cup {NoGps},
          now \in Clock :
          AddCombo(p, gps, now)

SpecSignal == SignalInit /\ [][SignalNext]_vars

\* ------------------------------------------------- kis_tracked_location

precision_multiplier == 10000

\* uint64_t max_size_mask = 0xF000000000000000: the top four bits of the word.
max_size_mask == 15 * (2 ^ (WordBits - 4))

\* "GetTrackerValue<int64_t>(x) & max_size_mask": the int64_t operand is
\* converted to uint64_t, so the bits tested are those of its two's
\* complement pattern.
Masked(x) == (ToUnsigned(x) \div (2 ^ (WordBits - 4))) # 0

\* int64_value += i and int64_value++ on the machine word.
AddInt64(a, b) == ToSigned(ToUnsigned(a + b))

\* kis_tracked_location_triplet after register_fields, reserve_fields(NULL).
FreshTriplet == [lat |-> 0, lon |-> 0, alt |-> 0, fix |-> 0, valid |-> 0]

\* kis_tracked_location after register_fields, reserve_fields(NULL).  The
\* corners hold degrees and metres; avg_loc holds ten-thousandths of them,
\* the quotient the code divides by precision_multiplier.
FreshLocation ==
    [loc_valid |-> 0, loc_fix |-> 0,
     min_loc |-> FreshTriplet, max_loc |-> FreshTriplet,
     avg_loc |-> FreshTriplet,
     avg_lat |-> 0, avg_lon |-> 0, avg_alt |-> 0,
     num_avg |-> 0, num_alt_avg |-> 0]

\* get_fix(), the typed read of the loc_fix node.
get_fix(f) == f.loc_fix

\* set_fix(in): loc_fix->set((uint8_t) in)
set_fix(f, in) == [f EXCEPT !.loc_fix = in % 256]

\* "if (v < min || min == 0) min->set(v)"
LowerCorner(cur, v) == IF v < cur \/ cur = 0 THEN v ELSE cur

\* "if (v > max || max == 0) max->set(v)"
UpperCorner(cur, v) == IF v > cur \/ cur = 0 THEN v ELSE cur

\* The fix and the bounding rectangle of add_loc.
AddLocCorners(f, in_lat, in_lon, in_alt, fix) ==
    LET f1 == [f EXCEPT !.loc_valid = 1]
        f2 == IF fix > get_fix(f1) THEN set_fix(f1, fix) ELSE f1
        f3 == [f2 EXCEPT
                 !.min_loc.lat = LowerCorner(@, in_lat),
                 !.max_loc.lat = UpperCorner(@, in_lat),
                 !.min_loc.lon = LowerCorner(@, in_lon),
                 !.max_loc.lon = UpperCorner(@, in_lon)]
    IN IF fix > 2
       THEN [f3 EXCEPT !.min_loc.alt = LowerCorner(@, in_alt),
                       !.max_loc.alt = UpperCorner(@, in_alt)]
       ELSE f3

\* "Append to averaged location"
AddLocAppend(f, in_lat, in_lon, in_alt, fix) ==
    LET f1 == [f EXCEPT
                 !.avg_lat = AddInt64(@, in_lat * precision_multiplier),
                 !.avg_lon = AddInt64(@, in_lon * precision_multiplier),
                 !.num_avg = AddInt64(@, 1)]
    IN IF fix > 2
       THEN [f1 EXCEPT
               !.avg_alt = AddInt64(@, in_alt * precision_multiplier),
               !.num_alt_avg = AddInt64(@, 1)]
       ELSE f1

\* calc_lat, calc_lon and calc_alt, in ten-thousandths.
CalcLat(f) == SignedDiv(f.avg_lat, f.num_avg)
CalcLon(f) == SignedDiv(f.avg_lon, f.num_avg)
CalcAlt(f) ==
    IF f.num_alt_avg # 0 THEN SignedDiv(f.avg_alt, f.num_alt_avg) ELSE 0

\* (int64_t) (calc * precision_multiplier), calc the double q / 10000.0:
\* exact when calc is a whole number, and otherwise the product may fall
\* short of q, the cast then truncating toward zero.
CastBack(q, loss) ==
    IF q % precision_multiplier = 0 THEN q
    ELSE IF q > 0 THEN q - loss ELSE q + loss

\* "Are we getting too close to the maximum size of any of our counters?"
AddLocGuard(f, loss) ==
    IF \/ Masked(f.avg_lat) \/ Masked(f.avg_lon) \/ Masked(f.avg_alt)
       \/ Masked(f.num_avg) \/ Masked(f.num_alt_avg)
    THEN [f EXCEPT !.avg_lat = CastBack(CalcLat(f), loss),
                   !.avg_lon = CastBack(CalcLon(f), loss),
                   !.avg_alt = CastBack(CalcAlt(f), loss),
                   !.num_avg = 1,
                   !.num_alt_avg = 1]
    ELSE f

\* void add_loc(double in_lat, double in_lon, double in_alt, unsigned int fix)
add_loc(f, in_lat, in_lon, in_alt, fix, loss) ==
    LET f1 == AddLocAppend(AddLocCorners(f, in_lat, in_lon, in_alt, fix),
                           in_lat, in_lon, in_alt, fix)
        f2 == [f1 EXCEPT !.avg_loc = [lat |-> CalcLat(f1), lon |-> CalcLon(f1),
                                      alt |-> CalcAlt(f1), fix |-> 3,
                                      valid |-> 1]]
    IN AddLocGuard(f2, loss)

LocationInit ==
    /\ NoRrd
    /\ nodes = FreshLocation
    /\ call = [op |-> "construct", lat |-> 0, lon |-> 0, alt |-> 0, fix |-> 0]
    /\ ncalls = 0

AddLoc(in_lat, in_lon, in_alt, fix, loss) ==
    /\ ncalls < MaxLocCalls
    /\ nodes' = add_loc(nodes, in_lat, in_lon, in_alt, fix, loss)
    /\ call' = [op |-> "add_loc", lat |-> in_lat, lon |-> in_lon,
                alt |-> in_alt, fix |-> fix]
    /\ ncalls' = ncalls + 1
    /\ UNCHANGED rrdvars

LocationNext ==
    \E in_lat \in Lats, in_lon \in Lons, in_alt \in Alts, fix \in Fixes,
       loss \in CastLoss :
        AddLoc(in_lat, in_lon, in_alt, fix, loss)

SpecLocation == LocationInit /\ [][LocationNext]_vars

\* ------------------------------------------------------------------ claims

\* The call just made ran add_sample (directly, or from pre_serialize).
Sampled == call.sampled
\* in_time - ltime of the call just made.
Gap == call.in_time - call.ltime
IsRrd == variant = "rrd"

\* Indices strictly between last and cur on a ring of n slots, going forward
\* from last and wrapping modulo n (all n-1 other indices when last = cur).
Between(last, cur, n) ==
    {i \in 0 .. n - 1 : ((i - last) % n) \in 1 .. ((cur - last - 1) % n)}

\* C1: in both record classes add_sample(v, t) with t < last_update_time
\* changes neither last_update_time nor any slot of any ring, and completes.
C1_StaleIsNoOp ==
    [][(call'.sampled /\ call'.in_time < last_time)
        => (/\ call'.ltime = last_time
            /\ UNCHANGED <<last_time, minute_vec, hour_vec, day_vec>>)]_vars

C1_Witness ==
    /\ IsRrd
    /\ call.op = "add_sample"
    /\ call.in_time < call.ltime
    /\ call.in_s # 0
    /\ minute_vec[SecBucket(call.in_time)] # call.in_s

\* C2: in the full RRD add_sample(v, t) with t = last_update_time replaces
\* second-slot t mod 60 by combine_element(old value, v) and leaves the other
\* second-slots alone; on a fresh sum-policy RRD add_sample(v1, t) followed by
\* add_sample(v2, t) leaves v1 + v2 in second-slot t mod 60, for any t
\* (5 and 3 give 8).
C2_SameSecondMerge ==
    [][(variant = "rrd" /\ call'.sampled /\ call'.in_time = last_time)
        => (/\ \A i \in 0 .. SecondSlots - 1 :
                 minute_vec'[i] =
                     IF i = call'.in_time % 60
                     THEN CombineElement(agg, minute_vec[i], call'.in_s)
                     ELSE minute_vec[i]
            /\ (agg = "default" /\ ncalls = 1 /\ call.sampled /\ call.ltime = 0)
                 => minute_vec'[call'.in_time % 60] = call.in_s + call'.in_s)]_vars

C2_Witness ==
    /\ IsRrd /\ Sampled /\ Gap = 0
    /\ agg = "default" /\ ncalls = 2 /\ call.in_time > 0
    /\ call.in_s # 0
    /\ minute_vec[call.in_time % 60] = 2 * call.in_s

\* C3: in the full RRD add_sample(v, t) with 0 < t - last_update_time <= 60
\* sets to the default exactly the second-slots strictly between
\* last_update_time mod 60 and t mod 60 (wrapping; all 59 others when the gap
\* is 60), writes v unmerged into second-slot t mod 60, and leaves the
\* remaining second-slots unchanged.
C3_SecondsFastForward ==
    [][(variant = "rrd" /\ call'.sampled
          /\ call'.in_time - last_time \in 1 .. 60)
        => LET skipped == Between(last_time % 60, call'.in_time % 60, 60)
           IN \A i \in 0 .. SecondSlots - 1 :
                minute_vec'[i] =
                    IF i = call'.in_time % 60 THEN call'.in_s
                    ELSE IF i \in skipped THEN DefaultVal(agg)
                    ELSE minute_vec[i]]_vars

\* a wrapping fast-forward that kept the slot of the previous sample
C3_Witness ==
    /\ IsRrd /\ Sampled /\ Gap \in 1 .. 59
    /\ call.in_time % 60 < call.ltime % 60
    /\ call.in_s # 0
    /\ minute_vec[call.ltime % 60] # 0
    /\ minute_vec[call.in_time % 60] = call.in_s

\* C4: in the full RRD, after add_sample(v, t) with
\* 0 <= t - last_update_time <= 60, minute-slot (t/60) mod 60 is
\* combine_bucket of the 60 second-slots and hour-slot (t/3600) mod 24 is
\* combine_bucket of the 60 minute-slots, both taken on the state after the call.
C4_SameMinuteRollups ==
    (IsRrd /\ Sampled /\ Gap \in 0 .. 60)
    => /\ hour_vec[(call.in_time \div 60) % 60] = CombineVector(agg, minute_vec)
       /\ day_vec[(call.in_time \div 3600) % 24] = CombineVector(agg, hour_vec)

C4_Witness ==
    /\ IsRrd /\ Sampled /\ Gap \in 1 .. 60
    /\ call.in_s # 0
    /\ hour_vec[(call.in_time \div 60) % 60] # 0
    /\ day_vec[(call.in_time \div 3600) % 24] # 0
    /\ hour_vec[(call.in_time \div 60) % 60] = CombineVector(agg, minute_vec)

\* C5: in the full RRD add_sample(v, t) with 60 < t - last_update_time <= 3600
\* sets to the default every minute-slot strictly between the last-seen minute
\* and the current minute (wrapping modulo 60), leaves the minute-slots outside
\* that range other than the current one unchanged, and writes hour-slot
\* (t/3600) mod 24 as combine_bucket of the minute-slots.
C5_MinutesFastForward ==
    [][(variant = "rrd" /\ call'.sampled
          /\ call'.in_time - last_time \in 61 .. 3600)
        => LET skipped == Between((last_time \div 60) % 60,
                                  (call'.in_time \div 60) % 60, 60)
           IN /\ \A i \in 0 .. MinuteSlots - 1 :
                   i # (call'.in_time \div 60) % 60
                   => hour_vec'[i] = IF i \in skipped THEN DefaultVal(agg)
                                     ELSE hour_vec[i]
              /\ day_vec'[(call'.in_time \div 3600) % 24]
                   = CombineVector(agg, hour_vec')]_vars

\* a wrapping minute fast-forward that kept the last-seen minute-slot
C5_Witness ==
    /\ IsRrd /\ Sampled /\ Gap \in 61 .. 3600
    /\ (call.in_time \div 60) % 60 < (call.ltime \div 60) % 60
    /\ hour_vec[(call.ltime \div 60) % 60] # 0
    /\ hour_vec[(call.in_time \div 60) % 60] # 0
    /\ day_vec[(call.in_time \div 3600) % 24] # 0

\* C6: on a sum-policy full RRD, after add_sample(v, t) with
\* 60 < t - last_update_time < 3600, second-slot t mod 60 holds v, every
\* second-slot between the last-seen second and t mod 60 holds the default 0,
\* and the current minute-slot holds the mean of the 60 second-slots.
C6_SumMinuteGap ==
    (IsRrd /\ agg = "default" /\ Sampled /\ Gap > 60 /\ Gap < 3600)
    => /\ minute_vec[call.in_time % 60] = call.in_s
       /\ \A i \in Between(call.ltime % 60, call.in_time % 60, 60) :
            minute_vec[i] = 0
       /\ hour_vec[(call.in_time \div 60) % 60]
            = SignedDiv(SumSlots(minute_vec, SecondSlots), SecondSlots)

\* C7: in the full RRD, after add_sample(v, t) with
\* 3600 < t - last_update_time <= 86400, every hour-slot strictly between the
\* last-seen hour and the current hour (wrapping modulo 24) holds the default,
\* and the current hour-slot holds the rollup of the minute-slots.
C7_HoursFastForward ==
    (IsRrd /\ Sampled /\ Gap > 3600 /\ Gap <= 86400)
    => /\ \A i \in Between((call.ltime \div 3600) % 24,
                           (call.in_time \div 3600) % 24, 24) :
            day_vec[i] = DefaultVal(agg)
       /\ day_vec[(call.in_time \div 3600) % 24] = CombineVector(agg, hour_vec)

\* C8: in the full RRD add_sample(v, t) with t - last_update_time > 86400
\* resets the three rings: second-slot t mod 60 = v, the other second-slots
\* default; minute-slot (t/60) mod 60 = combine_bucket of those second-slots,
\* the other minute-slots default; hour-slot (t/3600) mod 24 = combine_bucket
\* of those minute-slots, the other hour-slots default.
C8_DayReset ==
    (IsRrd /\ Sampled /\ Gap > 86400)
    => /\ \A i \in 0 .. SecondSlots - 1 :
            minute_vec[i] = IF i = call.in_time % 60
                            THEN call.in_s ELSE DefaultVal(agg)
       /\ \A i \in 0 .. MinuteSlots - 1 :
            hour_vec[i] = IF i = (call.in_time \div 60) % 60
                          THEN CombineVector(agg, minute_vec) ELSE DefaultVal(agg)
       /\ \A i \in 0 .. HourSlots - 1 :
            day_vec[i] = IF i = (call.in_time \div 3600) % 24
                         THEN CombineVector(agg, hour_vec) ELSE DefaultVal(agg)

\* a reset of a record that held an earlier sample in other slots
C8_Witness ==
    /\ IsRrd /\ Sampled /\ Gap > 86400
    /\ ncalls >= 2 /\ call.ltime > 0
    /\ call.ltime % 60 # call.in_time % 60
    /\ call.in_s # 0
    /\ hour_vec[(call.in_time \div 60) % 60] # 0
    /\ minute_vec[call.ltime % 60] = 0

\* C9 as stated: on a sum-policy full RRD, after a day-reset add_sample(v, t)
\* the current second-slot, minute-slot and hour-slot all hold the raw v and
\* every other slot holds the default.
C9_DayResetRaw ==
    (IsRrd /\ agg = "default" /\ Sampled /\ Gap > 86400)
    => /\ \A i \in 0 .. SecondSlots - 1 :
            minute_vec[i] = IF i = call.in_time % 60 THEN call.in_s ELSE 0
       /\ \A i \in 0 .. MinuteSlots - 1 :
            hour_vec[i] = IF i = (call.in_time \div 60) % 60 THEN call.in_s ELSE 0
       /\ \A i \in 0 .. HourSlots - 1 :
            day_vec[i] = IF i = (call.in_time \div 3600) % 24 THEN call.in_s ELSE 0

\* C9 amended: on a sum-policy full RRD, after a day-reset add_sample(v, t)
\* only the current second-slot holds the raw v; the current minute-slot holds
\* the sum-policy combine_bucket of the second-slots (v / 60 for v >= 0) and
\* the current hour-slot the combine_bucket of the minute-slots
\* ((v / 60) / 60 for v >= 0); every other slot holds the default.
C9_DayResetAveraged ==
    (IsRrd /\ agg = "default" /\ Sampled /\ Gap > 86400)
    => /\ \A i \in 0 .. SecondSlots - 1 :
            minute_vec[i] = IF i = call.in_time % 60 THEN call.in_s ELSE 0
       /\ \A i \in 0 .. MinuteSlots - 1 :
            hour_vec[i] = IF i = (call.in_time \div 60) % 60
                          THEN DefaultCombineVector(minute_vec) ELSE 0
       /\ \A i \in 0 .. HourSlots - 1 :
            day_vec[i] = IF i = (call.in_time \div 3600) % 24
                         THEN DefaultCombineVector(hour_vec) ELSE 0
       /\ call.in_s >= 0
            => /\ hour_vec[(call.in_time \div 60) % 60] = call.in_s \div 60
               /\ day_vec[(call.in_time \div 3600) % 24]
                    = (call.in_s \div 60) \div 60

C9_Witness ==
    /\ IsRrd /\ agg = "default" /\ Sampled /\ Gap > 86400
    /\ call.in_s = 3600
    /\ hour_vec[(call.in_time \div 60) % 60] = 60
    /\ day_vec[(call.in_time \div 3600) % 24] = 1

\* C10: in both record classes and in every branch, after add_sample(v, t)
\* with t >= last_update_time, last_update_time equals t.
C10_LastTimeSet ==
    (Sampled /\ call.in_time >= call.ltime) => last_time = call.in_time

\* the full record's day-reset branch, which returns on its own
C10_Witness ==
    /\ IsRrd /\ Sampled
    /\ Gap > 86400 /\ call.ltime > 0
    /\ last_time = call.in_time

\* C11: over any sequence of add_sample and pre_serialize calls, whatever the
\* order of their timestamps, last_update_time never decreases.
C11_LastTimeMonotone ==
    [][last_time' >= last_time]_vars

\* a pre_serialize whose clock reading lies before last_update_time
C11_Witness ==
    /\ call.op = "pre_serialize" /\ Sampled
    /\ call.in_time < call.ltime
    /\ last_time = call.ltime

\* C12: in both record classes update-before-serialize is enabled after
\* construction and changes only through update_before_serialize; while it is
\* enabled pre_serialize at clock reading now changes last_update_time and
\* the rings exactly as add_sample(default_val, now) does; while it is
\* disabled pre_serialize leaves last_update_time and every slot unchanged.
C12_PreSerialize ==
    [][/\ (call.op = "construct" => update_first)
       /\ (update_first' # update_first => call'.op = "update_before_serialize")
       /\ (call'.op = "pre_serialize" /\ update_first)
            => /\ call'.sampled
               /\ <<last_time', minute_vec', hour_vec', day_vec'>> =
                    LET r == AddSample(variant, agg, Rrd, DefaultVal(agg),
                                       call'.in_time)
                    IN <<r.last_time, r.minute_vec, r.hour_vec, r.day_vec>>
       /\ (call'.op = "pre_serialize" /\ ~update_first)
            => /\ ~call'.sampled
               /\ UNCHANGED <<last_time, minute_vec, hour_vec, day_vec>>]_vars

\* a disabled pre_serialize at a clock reading later than last_update_time
C12_Witness ==
    /\ call.op = "pre_serialize" /\ ~Sampled
    /\ last_time > 0
    /\ call.in_time > last_time

\* C13: after construction, fresh or attached to a map from storage whose
\* rings may be shorter or longer than expected, and after any later calls,
\* the seconds ring has exactly 60 slots, and in the full RRD the minutes
\* ring exactly 60 and the hours ring exactly 24.
C13_RingSizes ==
    /\ VecSize(minute_vec) = SecondSlots
    /\ IsRrd => /\ VecSize(hour_vec) = MinuteSlots
                /\ VecSize(day_vec) = HourSlots

\* ------------------------------------------------------- value-tree claims

RECURSIVE Occurrences(_, _)
\* Slots of the sequence s that hold node n.
Occurrences(s, n) ==
    IF s = << >> THEN 0
    ELSE (IF Head(s) = n THEN 1 ELSE 0) + Occurrences(Tail(s), n)

RECURSIVE SlotsHolding(_, _, _)
\* Slots holding node n, over the live containers among nodes 1 .. c.
SlotsHolding(ns, n, c) ==
    IF c = 0 THEN 0
    ELSE (IF ns[c].alive THEN Occurrences(Slots(ns[c]), n) ELSE 0)
         + SlotsHolding(ns, n, c - 1)

\* The container kind a container method belongs to.
OpKind(op) ==
    CASE op \in {"add_vector", "operator+=", "del_vector", "clear_vector"} -> "vector"
      [] op \in {"add_map", "del_map"} -> "map"
      [] op \in {"add_intmap", "del_intmap"} -> "intmap"
      [] op \in {"add_macmap", "del_macmap"} -> "macmap"
      [] OTHER -> "none"

\* C14: after any sequence of inserts (add_vector, operator+= append,
\* add_map, add_intmap, add_macmap), replacements, removals and clears, the
\* refcount of every live node equals the number of container slots, over
\* all containers, that hold it.
C14_RefcountBalance ==
    \A n \in Node :
        nodes[n].alive => nodes[n].reference_count = SlotsHolding(nodes, n, NumNodes)

\* C15: no live container ever holds a node that has been destroyed.
C15_NoDangling ==
    \A c \in Node :
        nodes[c].alive =>
            \A i \in DOMAIN Slots(nodes[c]) : nodes[Slots(nodes[c])[i]].alive

\* C16: destroying a node whose refcount is nonzero is reported as a fatal
\* error, and none of its children is unlinked: no refcount changes and no
\* node is destroyed.
C16_DestroyReferenced ==
    [][(call'.op = "delete" /\ nodes[call'.t].reference_count # 0)
        => (/\ call'.error = "refcount"
            /\ ~call'.ub
            /\ nodes' = nodes)]_vars

\* a referenced container that holds a child has been handed to delete
C16_Witness ==
    /\ call.op = "delete" /\ call.error = "refcount"
    /\ nodes[call.t].alive
    /\ nodes[call.t].reference_count > 0
    /\ Slots(nodes[call.t]) # << >>
    /\ \A i \in DOMAIN Slots(nodes[call.t]) :
          nodes[Slots(nodes[call.t])[i]].reference_count > 0

\* C17: del_vector(p) with p >= size, p = size and the empty sequence
\* included, fails with a fatal error and reads, erases and unlinks nothing.
C17_DelVectorOutOfRange ==
    [][(/\ call'.op = "del_vector"
        /\ nodes[call'.t].type = "vector"
        /\ call'.k >= Len(nodes[call'.t].subvector_value))
        => (/\ call'.error = "range"
            /\ ~call'.ub
            /\ nodes' = nodes)]_vars

\* C18: a container method called on a node of another kind fails with a
\* type mismatch and leaves every node as it was.
C18_TypeMismatch ==
    [][(OpKind(call'.op) # "none" /\ nodes[call'.t].type # OpKind(call'.op))
        => (/\ call'.error = "type_mismatch"
            /\ nodes' = nodes)]_vars

\* C20: on an integer-keyed map, del_intmap(k) for a present key k removes
\* the entry: find(k) is absent afterwards, size() is one less, the child's
\* refcount is one less, and the id-keyed map payload is as before.
C20_DelIntmap ==
    [][(/\ call'.op = "del_intmap"
        /\ nodes[call'.t].type = "intmap"
        /\ call'.k \in DOMAIN nodes[call'.t].subintmap_value)
        => (/\ call'.error = "none"
            /\ ~Found(nodes'[call'.t], call'.k)
            /\ Size(nodes'[call'.t]) = Size(nodes[call'.t]) - 1
            /\ nodes'[nodes[call'.t].subintmap_value[call'.k]].reference_count
                 = nodes[nodes[call'.t].subintmap_value[call'.k]].reference_count - 1
            /\ nodes'[call'.t].submap_value = nodes[call'.t].submap_value)]_vars

\* C19: reading a scalar node of kind K through GetTrackerValue<T>, T the C
\* type of K, succeeds and returns the value the node holds.
C19_GetTrackerValue ==
    (call.op = "GetTrackerValue" /\ call.T = nodes[1].type)
    => (call.error = "none" /\ call.ret = nodes[1].value)

\* C21: on a MAC-keyed map node del_macmap(k) is valid: it raises no error,
\* and for a present key k it removes the entry and decrements the removed
\* child's refcount by one; on a node of any other kind it raises a type
\* mismatch.
C21_DelMacmap ==
    [][(call'.op = "del_macmap")
        => IF nodes[call'.t].type = "macmap"
           THEN /\ call'.error = "none"
                /\ call'.k \in DOMAIN nodes[call'.t].submacmap_value
                     => /\ call'.k \notin DOMAIN nodes'[call'.t].submacmap_value
                        /\ nodes'[nodes[call'.t].submacmap_value[call'.k]].reference_count
                             = nodes[nodes[call'.t].submacmap_value[call'.k]].reference_count - 1
           ELSE call'.error = "type_mismatch"]_vars

\* C22: a call that fails leaves everything as it was before the call: when
\* add_sample fails on a type mismatch of a slot, last_update_time and every
\* slot of every ring are unchanged.
C22_FailureIsAtomic ==
    [][(call'.op = "add_sample" /\ call'.error # "none")
        => UNCHANGED <<last_time, minute_vec, hour_vec, day_vec>>]_vars

\* ---- aggregators

\* r is s divided by n > 0 as an integer, truncated toward zero.
TruncQuot(s, n, r) ==
    IF s >= 0 THEN r * n <= s /\ s < (r + 1) * n
    ELSE r * n >= s /\ s > (r - 1) * n

Abs(x) == IF x < 0 THEN -x ELSE x

IsBucket(v, seq) ==
    /\ VecSize(v) = Len(seq)
    /\ \A i \in DOMAIN v : v[i] = seq[i + 1]

C24_SumAverage ==
    call.policy = "default"
        => /\ call.op = "combine_element" => call.ret = call.a + call.b
           /\ call.op = "default_val" => call.ret = 0
           /\ (call.op = "combine_vector" /\ VecSize(call.v) > 0)
                => TruncQuot(SumSlots(call.v, VecSize(call.v)),
                             VecSize(call.v), call.ret)

\* C25: the extreme combine_element returns the smaller operand when both
\* are negative, the larger when both are positive, the other operand when
\* one is zero, and the negative operand on mixed signs, in either order.
C25_ExtremeCases ==
    (call.op = "combine_element" /\ call.policy = "extreme")
        => LET a == call.a
               b == call.b
               r == call.ret
           IN  /\ (a < 0 /\ b < 0) => r = (IF a < b THEN a ELSE b)
               /\ (a > 0 /\ b > 0) => r = (IF a > b THEN a ELSE b)
               /\ a = 0 => r = b
               /\ b = 0 => r = a
               /\ (a < 0 /\ b > 0) => r = a
               /\ (a > 0 /\ b < 0) => r = b
               /\ (a = -5 /\ b = -10) => r = -10
               /\ (a = 5 /\ b = 10) => r = 10
               /\ (a = 0 /\ b = 7) => r = 7
               /\ (a = -3 /\ b = 4) => r = -3

C25_Witness ==
    /\ call.op = "combine_element" /\ call.policy = "extreme"
    /\ call.a = -3 /\ call.b = 4 /\ call.ret = -3

\* C26 as stated: the extreme combine_element returns one of its operands
\* and the magnitude of the result is the larger of the two magnitudes.
C26_LargerMagnitude ==
    (call.op = "combine_element" /\ call.policy = "extreme")
        => /\ call.ret \in {call.a, call.b}
           /\ Abs(call.ret) = (IF Abs(call.a) > Abs(call.b)
                               THEN Abs(call.a) ELSE Abs(call.b))

\* C26 amended: the extreme combine_element returns one of its operands;
\* the result has the larger magnitude when the operands share a sign or
\* one is zero, and is the negative operand, whatever its magnitude, when
\* the signs are mixed.
C26_LargerMagnitudeSameSign ==
    (call.op = "combine_element" /\ call.policy = "extreme")
        => LET a == call.a
               b == call.b
               r == call.ret
           IN  /\ r \in {a, b}
               /\ (a * b >= 0)
                    => Abs(r) = (IF Abs(a) > Abs(b) THEN Abs(a) ELSE Abs(b))
               /\ (a * b < 0) => r < 0

C26_Witness ==
    /\ call.op = "combine_element" /\ call.policy = "extreme"
    /\ call.a = 10 /\ call.b = -3 /\ call.ret = -3

\* C27: for every policy combine_vector on a bucket with no contributing
\* slot (no slot at all, or for peak-signal only zero slots) returns the
\* default value and does not divide by zero.
C27_NoContribution ==
    (/\ call.op = "combine_vector"
     /\ IF call.policy = "peak_signal"
        THEN CountNonZero(call.v, VecSize(call.v)) = 0
        ELSE VecSize(call.v) = 0)
        => /\ call.ret = DefaultVal(call.policy)
           /\ ~call.divzero

\* ---- structured records

\* C28: clone_type() of every record class returns a new, empty record of
\* the receiver's class carrying the receiver's field id.
C28_CloneType ==
    call.op = "clone_type"
        => /\ call.ret.class = call.self.class
           /\ call.ret.agg = call.self.agg
           /\ call.ret.id = call.self.id
           /\ ~call.ret.stored

\* ---- destruction of containers

\* Node n sits in a slot of a live container other than t.
HeldElsewhere(ns, n, t) ==
    \E c \in Node \ {t} : ns[c].alive /\ Occurrences(Slots(ns[c]), n) > 0

\* C29: destroying a container whose refcount is zero lowers the refcount of
\* each child by the number of slots the child occupied in it, and a child
\* that another container also holds keeps a positive refcount and stays
\* alive with its value.
C29_DestroyUnlinksChildren ==
    [][(call'.op = "delete" /\ nodes[call'.t].reference_count = 0)
        => /\ call'.error = "none" /\ ~call'.ub
           /\ \A n \in Node \ {call'.t} :
                /\ Occurrences(Slots(nodes[call'.t]), n) > 0
                     => nodes'[n].reference_count
                          = nodes[n].reference_count
                            - Occurrences(Slots(nodes[call'.t]), n)
                /\ (/\ Occurrences(Slots(nodes[call'.t]), n) > 0
                    /\ HeldElsewhere(nodes, n, call'.t))
                     => /\ nodes'[n].alive
                        /\ nodes'[n].reference_count > 0
                        /\ nodes'[n].value = nodes[n].value]_vars

\* ---- minute-only record

\* C30: in the minute-only RRD, after add_sample(v, t) with
\* t > last_update_time, whatever the gap, second-slot t mod 60 holds v.
C30_MinuteRrdRecords ==
    (variant = "minute_rrd" /\ call.op = "add_sample"
        /\ call.in_time > call.ltime)
        => minute_vec[call.in_time % 60] = call.in_s

\* ---- empty values under the peak-signal policy

\* C31: under the peak-signal policy a nonzero reading combined in the same
\* second with an empty value, in either order (the reading first and then
\* the add_sample(default_val, t) of pre_serialize, or the reading arriving
\* on a slot already written as empty at t), leaves the reading in
\* second-slot t mod 60.
C31_PeakKeepsReading ==
    [][(/\ agg = "peak_signal"
        /\ call'.sampled
        /\ call'.ltime = last_time
        /\ call'.in_time = last_time
        /\ (minute_vec[last_time % 60] = 0) # (call'.in_s = 0))
        => minute_vec'[last_time % 60]
             = (IF call'.in_s = 0 THEN minute_vec[last_time % 60]
                ELSE call'.in_s)]_vars

\* ---- rollups in every branch

\* C32: in the full RRD, after any add_sample(v, t) with
\* t >= last_update_time, whatever the branch and the policy, minute-slot
\* (t/60) mod 60 is combine_bucket of the second-slots and hour-slot
\* (t/3600) mod 24 is combine_bucket of the minute-slots, both taken on the
\* state the call leaves.
C32_RollupConsistency ==
    (IsRrd /\ Sampled /\ Gap >= 0)
    => /\ hour_vec[(call.in_time \div 60) % 60] = CombineVector(agg, minute_vec)
       /\ day_vec[(call.in_time \div 3600) % 24] = CombineVector(agg, hour_vec)

\* ---- stale seconds

\* The one timestamp s with s mod 60 = i and last - 60 < s <= last.
SlotTime(last, i) == last - ((last - i) % 60)

\* C33: no second-slot holds stale data, in either record class: across every
\* call, a second-slot that is not the default afterwards either is slot
\* t mod 60 of the sample just accepted and holds that sample (merged with
\* the slot when t = last_update_time), or keeps the value it had and the
\* timestamp that value belongs to is still within 60 seconds of
\* last_update_time.  A record starts with every slot default.
C33_NoStaleSeconds ==
    [][\A i \in 0 .. SecondSlots - 1 :
         minute_vec'[i] # DefaultVal(agg)
         => \/ /\ call'.sampled
               /\ call'.in_time >= last_time
               /\ i = call'.in_time % 60
               /\ last_time' = call'.in_time
               /\ minute_vec'[i] =
                    (IF call'.in_time = last_time
                     THEN CombineElement(agg, minute_vec[i], call'.in_s)
                     ELSE call'.in_s)
            \/ /\ minute_vec'[i] = minute_vec[i]
               /\ SlotTime(last_time', i) = SlotTime(last_time, i)]_vars

\* a minute-only record that kept the slot of the previous sample next to
\* the slot of a newer one
C33_Witness ==
    /\ variant = "minute_rrd" /\ call.op = "add_sample"
    /\ Gap \in 1 .. 59
    /\ minute_vec[call.ltime % 60] # 0
    /\ minute_vec[call.in_time % 60] = call.in_s
    /\ call.in_s # 0

\* ---- re-insertion under the same key

\* The payload a keyed insert stores into.
OpPayload(op) ==
    CASE op = "add_map" -> "submap_value"
      [] op = "add_intmap" -> "subintmap_value"
      [] op = "add_macmap" -> "submacmap_value"

\* C34: add_map, add_intmap or add_macmap of a node under a key that already
\* holds that node leaves the node alive, under the key, with the refcount
\* it had, and never destroys it on the way.
C34_ReinsertSameChild ==
    [][(/\ call'.op \in {"add_map", "add_intmap", "add_macmap"}
        /\ nodes[call'.t].type = OpKind(call'.op)
        /\ call'.k \in DOMAIN nodes[call'.t][OpPayload(call'.op)]
        /\ nodes[call'.t][OpPayload(call'.op)][call'.k] = call'.s)
        => /\ call'.error = "none" /\ ~call'.ub
           /\ nodes'[call'.s].alive
           /\ nodes'[call'.t][OpPayload(call'.op)][call'.k] = call'.s
           /\ nodes'[call'.s].reference_count
                = nodes[call'.s].reference_count]_vars

\* ---- attaching to stored state

\* C35: a record of either class built on a map from storage starts with the
\* stored last_update_time and with every stored slot holding its stored
\* value; only what the map lacked is created.
C35_AttachPreserves ==
    call.op = "construct"
        => /\ last_time = e.last_time
           /\ \A i \in DOMAIN e.minute_vec : minute_vec[i] = e.minute_vec[i]
           /\ \A i \in DOMAIN e.hour_vec : hour_vec[i] = e.hour_vec[i]
           /\ \A i \in DOMAIN e.day_vec : day_vec[i] = e.day_vec[i]

\* ---- signal records

DbmFields ==
    {"last_signal_dbm", "min_signal_dbm", "max_signal_dbm",
     "last_noise_dbm", "min_noise_dbm", "max_noise_dbm"}

RssiFields ==
    {"last_signal_rssi", "min_signal_rssi", "max_signal_rssi",
     "last_noise_rssi", "min_noise_rssi", "max_noise_rssi"}

\* The minimum and the maximum of the nonzero readings seen, 0 standing for
\* none seen, after one more reading v.
MinSeen(m, v) == IF v = 0 THEN m ELSE IF m = 0 \/ v < m THEN v ELSE m
MaxSeen(m, v) == IF v = 0 THEN m ELSE IF m = 0 \/ v > m THEN v ELSE m

\* C36: a signal record keeps dBm and RSSI statistics apart: folding an
\* RSSI reading with either operator+= changes no dBm field, and
\* min_signal_rssi and max_signal_rssi stay the minimum and the maximum of
\* the nonzero signal_rssi values seen; symmetrically for dBm readings.
C36_SignalKindsSeparate ==
    [][/\ (call'.op \in {"layer1", "combo"} /\ call'.p.signal_type = "rssi")
          => /\ \A fld \in DbmFields : nodes'[fld] = nodes[fld]
             /\ nodes'.min_signal_rssi
                  = MinSeen(nodes.min_signal_rssi, call'.p.signal_rssi)
             /\ nodes'.max_signal_rssi
                  = MaxSeen(nodes.max_signal_rssi, call'.p.signal_rssi)
       /\ (call'.op \in {"layer1", "combo"} /\ call'.p.signal_type = "dbm")
          => /\ \A fld \in RssiFields : nodes'[fld] = nodes[fld]
             /\ nodes'.min_signal_dbm
                  = MinSeen(nodes.min_signal_dbm, call'.p.signal_dbm)
             /\ nodes'.max_signal_dbm
                  = MaxSeen(nodes.max_signal_dbm, call'.p.signal_dbm)]_vars

\* C40: carrierset and encodingset are the bitwise OR of the carrier and
\* the encoding of every packet folded in, and maxseenrate the largest
\* datarate, whatever the signal type of the packet and whichever
\* operator+= folded it.
C40_SetsFoldEveryPacket ==
    [][(call'.op \in {"layer1", "combo"} /\ call'.p # NoLayer1)
        => /\ nodes'.carrierset = BitOr(nodes.carrierset, call'.p.carrier)
           /\ nodes'.encodingset = BitOr(nodes.encodingset, call'.p.encoding)
           /\ nodes'.maxseenrate
                = (IF nodes.maxseenrate < call'.p.datarate
                   THEN call'.p.datarate ELSE nodes.maxseenrate)]_vars

\* ---- order of samples of one timestamp

\* Second-slot t mod 60 after add_sample(a, t) and then add_sample(b, t) on
\* the record as it stands, for t >= last_time: the first call leaves
\* last_time = t, so the second runs the seconds code of the last branch.
SlotAfterTwo(a, b, t) ==
    LET first == AddSample(variant, agg, Rrd, a, t)
    IN CHOOSE slot \in
           {SameMinuteSeconds(agg, [last_time |-> first.last_time,
                                     minute_vec |-> m], b, t)[t % 60] :
               m \in {first.minute_vec}} : TRUE

\* C37: for every policy combine_element is commutative and associative and
\* returns one of its operands or their sum, so that from any state of a
\* record of either class the second-slot left by two samples of one
\* timestamp t >= last_update_time does not depend on their order.
C37_OrderIndependent ==
    /\ \A a \in Samples, b \in Samples :
         /\ CombineElement(agg, a, b) = CombineElement(agg, b, a)
         /\ CombineElement(agg, a, b) \in {a, b, a + b}
         /\ \A c \in Samples :
              CombineElement(agg, CombineElement(agg, a, b), c)
                = CombineElement(agg, a, CombineElement(agg, b, c))
    /\ \A a \in Samples, b \in Samples, t \in Times :
         t >= last_time => SlotAfterTwo(a, b, t) = SlotAfterTwo(b, a, t)


\* C38: after every add_loc the corners bound every point added so far, a
\* coordinate of exactly 0 included, and fix is the largest fix passed.  Step
\* by step: the point just added lies between the corners, no corner moves
\* inward past the points it bounded before, and fix is the larger of the
\* fix held and the fix passed.
C38_CornersBoundPoints ==
    [][call'.op = "add_loc" =>
        /\ nodes'.min_loc.lat <= call'.lat
        /\ call'.lat <= nodes'.max_loc.lat
        /\ nodes'.min_loc.lon <= call'.lon
        /\ call'.lon <= nodes'.max_loc.lon
        /\ ncalls > 0 =>
              /\ nodes'.min_loc.lat <= nodes.min_loc.lat
              /\ nodes'.max_loc.lat >= nodes.max_loc.lat
              /\ nodes'.min_loc.lon <= nodes.min_loc.lon
              /\ nodes'.max_loc.lon >= nodes.max_loc.lon
        /\ nodes'.loc_fix =
              (IF call'.fix > nodes.loc_fix THEN call'.fix
               ELSE nodes.loc_fix)]_vars

\* C39: for coordinates of small magnitude, of either sign, the overflow
\* guard of add_loc does not fire: after n calls num_avg is n, each call adds
\* its scaled latitude and longitude to avg_lat and avg_lon, num_alt_avg
\* counts the calls with fix > 2 only, and avg_loc is the mean of the points.
C39_AccumulatorsKept ==
    [][call'.op = "add_loc" =>
        /\ nodes'.num_avg = ncalls'
        /\ nodes'.avg_lat = nodes.avg_lat + call'.lat * precision_multiplier
        /\ nodes'.avg_lon = nodes.avg_lon + call'.lon * precision_multiplier
        /\ nodes'.num_alt_avg =
              nodes.num_alt_avg + (IF call'.fix > 2 THEN 1 ELSE 0)
        /\ nodes'.avg_loc.lat =
              SignedDiv(nodes.avg_lat + call'.lat * precision_multiplier,
                        ncalls')
        /\ nodes'.avg_loc.lon =
              SignedDiv(nodes.avg_lon + call'.lon * precision_multiplier,
                        ncalls')]_vars

====
